---- MODULE Spec2Model ----
(***************************************************************************)
(* DigOS phase1-crimos: process table and slot allocator (kproc.c), the    *)
(* scheduler (scheduler.c) and the system-call handlers (ksyscall.c).      *)
(*                                                                         *)
(* The kernel is single threaded: every handler runs to completion, so     *)
(* each function is one action.  A kernel_panic halts the kernel; it is    *)
(* recorded in the variable panic and disables every action.               *)
(***************************************************************************)
EXTENDS Integers, Sequences, FiniteSets, TLC

(***************************************************************************)
(* Program constants (kproc.h, scheduler.h and queue.h are not part of the *)
(* sources; the values are the ones of the spec's worked example: four     *)
(* table slots, a quantum of one tick, queues as large as the table).      *)
(***************************************************************************)
PROC_MAX == 4
SCHEDULER_TIMESLICE == 1
QUEUE_SIZE == PROC_MAX
PROC_IO_MAX == 2
RINGBUF_SIZE == 2

(***************************************************************************)
(* Bounds of the model.                                                    *)
(***************************************************************************)
MaxTicks == 2
MaxPid == 4
MaxSleep == 2
BitWidth == 7

NULL == -1
NoPanic == "none"

Slots == 0 .. (PROC_MAX - 1)

\* The ring buffers a handle can point at.
BufIds == 0 .. 1

\* A process table entry as C zero-initialisation / memset(proc, 0, ...) leaves it.
ZeroProc ==
    [pid |-> 0, state |-> "NONE", run_time |-> 0, cpu_time |-> 0,
     sleep_time |-> 0, scheduler_queue |-> "NULL", trapframe |-> "NULL",
     io |-> [j \in 0 .. (PROC_IO_MAX - 1) |-> NULL]]

VARIABLES
    proc_table,      \* kproc.c: proc_t proc_table[PROC_MAX]
    proc_allocator,  \* kproc.c: queue of free table indices
    next_pid,        \* kproc.c: next process id to hand out
    run_queue,       \* scheduler.c: pids waiting to run
    sleep_queue,     \* scheduler.c: pids sleeping
    active_proc,     \* the slot active_proc points at, or NULL
    ticks,           \* timer_get_ticks()
    panic,           \* NoPanic, or the message of the kernel_panic that halted the kernel
    trapframe_eax,   \* eax of the saved context kept in each slot's stack
    lastOp,          \* history: the operation that produced this state and its result
    sleep_issued,    \* history: <<pid, deadline>> of every scheduler_sleep issued
    exited,          \* history: pids that called PROC_EXIT
    destroyed,       \* history: pids whose PCB kproc_destroy cleared
    script_pos,      \* history: progress along ExampleScript, -1 once off it
    undo,            \* history: the scheduler_add whose effect a scheduler_remove is to undo
    created,         \* history: the pids kproc_create has returned
    ringbuf,         \* the contents of each I/O ring buffer
    active_tty,      \* tty.c: the tty_t active_tty points at
    tty_written,     \* history: the buffer indices the last tty_update stored to
    tty_input,       \* history: the characters passed to tty_update so far
    current_row,     \* vga.c: static int current_row
    current_col,     \* vga.c: static int current_col
    vga_buf,         \* the character of each cell of the text buffer at VGA_BASE
    vga_calls,       \* history: the number of VGA calls made so far
    shift_pressed,   \* keyboard.c: static int shift_pressed
    caps_lock_on,    \* keyboard.c: static int caps_lock_on
    ctrl_pressed,    \* keyboard.c: static int ctrl_pressed
    alt_pressed,     \* keyboard.c: static int alt_pressed
    kbd_events       \* history: the raw codes passed to keyboard_decode so far

kvars == <<proc_table, proc_allocator, next_pid, run_queue, sleep_queue, active_proc, panic,
           trapframe_eax>>
hvars == <<lastOp, sleep_issued, exited, destroyed, script_pos, undo, created>>
vars == <<proc_table, proc_allocator, next_pid, run_queue, sleep_queue, active_proc,
          ticks, panic, trapframe_eax, lastOp, sleep_issued, exited, destroyed, script_pos,
          undo, created, ringbuf, active_tty, tty_written, tty_input,
          current_row, current_col, vga_buf, vga_calls,
          shift_pressed, caps_lock_on, ctrl_pressed, alt_pressed, kbd_events>>
ttyvars == <<active_tty, tty_written, tty_input>>
vgavars == <<current_row, current_col, vga_buf, vga_calls>>
kbdvars == <<shift_pressed, caps_lock_on, ctrl_pressed, alt_pressed, kbd_events>>
devvars == <<ttyvars, vgavars, kbdvars>>

\* The kernel's global data as one record, so that the C functions are operators on it.
K ==
    [proc_table |-> proc_table, proc_allocator |-> proc_allocator, next_pid |-> next_pid,
     run_queue |-> run_queue, sleep_queue |-> sleep_queue, active_proc |-> active_proc,
     panic |-> panic, trapframe_eax |-> trapframe_eax]

(***************************************************************************)
(* Queue utility (queue.c is not part of the sources): a bounded FIFO.     *)
(* The callers fix the C convention: the return value is a status, 0 on    *)
(* success and -1 on failure, and the dequeued value is delivered through  *)
(* the pointer argument.                                                   *)
(***************************************************************************)
queue_is_empty(q) == Len(q) = 0

queue_in(q, v) ==
    IF Len(q) >= QUEUE_SIZE
    THEN [rc |-> -1, q |-> q]
    ELSE [rc |-> 0, q |-> Append(q, v)]

queue_out(q) ==
    IF queue_is_empty(q)
    THEN [rc |-> -1, item |-> NULL, q |-> q]
    ELSE [rc |-> 0, item |-> Head(q), q |-> Tail(q)]

kernel_panic(s, msg) == [s EXCEPT !.panic = msg]

(***************************************************************************)
(* kproc.c                                                                 *)
(***************************************************************************)
\* A scan that matches the pid alone.
RECURSIVE pid_scan_any(_, _, _)
pid_scan_any(table, pid, i) ==
    IF i >= PROC_MAX THEN NULL
    ELSE IF table[i].pid = pid THEN i
    ELSE pid_scan_any(table, pid, i + 1)

RECURSIVE pid_scan(_, _, _)
pid_scan(table, pid, i) ==
    IF i >= PROC_MAX THEN NULL
    ELSE IF table[i].pid = pid /\ table[i].state # "NONE" THEN i
    ELSE pid_scan(table, pid, i + 1)

pid_to_proc(table, pid) == pid_scan(table, pid, 0)

(***************************************************************************)
(* scheduler.c                                                             *)
(***************************************************************************)
\* scheduler_add that queues the process without marking it IDLE.
scheduler_add_keep_state(s, proc) ==
    IF proc = NULL THEN kernel_panic(s, "Invalid process!")
    ELSE
        LET t == [s.proc_table EXCEPT ![proc].scheduler_queue = "run_queue",
                                      ![proc].cpu_time = 0]
            r == queue_in(s.run_queue, t[proc].pid)
        IN  IF r.rc # 0
            THEN kernel_panic([s EXCEPT !.proc_table = t],
                              "Unable to add the process to the scheduler")
            ELSE [s EXCEPT !.proc_table = t, !.run_queue = r.q]

scheduler_add(s, proc) ==
    IF proc = NULL THEN kernel_panic(s, "Invalid process!")
    ELSE
        LET t == [s.proc_table EXCEPT ![proc].scheduler_queue = "run_queue",
                                      ![proc].state = "IDLE",
                                      ![proc].cpu_time = 0]
            r == queue_in(s.run_queue, t[proc].pid)
        IN  IF r.rc # 0
            THEN kernel_panic([s EXCEPT !.proc_table = t],
                              "Unable to add the process to the scheduler")
            ELSE [s EXCEPT !.proc_table = t, !.run_queue = r.q]

\* The loop of scheduler_remove: i counts up while the bound is the queue's
\* current size, which shrinks when the entry is dropped.
RECURSIVE remove_loop(_, _, _)
remove_loop(q, pid, i) ==
    IF i < Len(q)
    THEN LET o == queue_out(q)
         IN  IF o.item = pid
             THEN remove_loop(o.q, pid, i + 1)
             ELSE remove_loop(queue_in(o.q, o.item).q, pid, i + 1)
    ELSE q

\* scheduler_remove whose loop starts at the second entry.
scheduler_remove_from1(s, proc) ==
    IF proc = NULL THEN kernel_panic(s, "Invalid process!")
    ELSE
        LET p == s.proc_table[proc]
            s1 == IF p.scheduler_queue = "run_queue"
                  THEN [s EXCEPT !.run_queue = remove_loop(s.run_queue, p.pid, 1),
                                 !.proc_table[proc].scheduler_queue = "NULL"]
                  ELSE IF p.scheduler_queue = "sleep_queue"
                  THEN [s EXCEPT !.sleep_queue = remove_loop(s.sleep_queue, p.pid, 1),
                                 !.proc_table[proc].scheduler_queue = "NULL"]
                  ELSE s
        IN  IF proc = s1.active_proc THEN [s1 EXCEPT !.active_proc = NULL] ELSE s1

scheduler_remove(s, proc) ==
    IF proc = NULL THEN kernel_panic(s, "Invalid process!")
    ELSE
        LET p == s.proc_table[proc]
            s1 == IF p.scheduler_queue = "run_queue"
                  THEN [s EXCEPT !.run_queue = remove_loop(s.run_queue, p.pid, 0),
                                 !.proc_table[proc].scheduler_queue = "NULL"]
                  ELSE IF p.scheduler_queue = "sleep_queue"
                  THEN [s EXCEPT !.sleep_queue = remove_loop(s.sleep_queue, p.pid, 0),
                                 !.proc_table[proc].scheduler_queue = "NULL"]
                  ELSE s
        IN  IF proc = s1.active_proc THEN [s1 EXCEPT !.active_proc = NULL] ELSE s1

scheduler_sleep(s, proc, time, now) ==
    LET s1 == [s EXCEPT !.proc_table[proc].sleep_time = now + time,
                        !.proc_table[proc].state = "SLEEPING"]
        s2 == scheduler_remove(s1, proc)
    IN  [s2 EXCEPT !.sleep_queue = queue_in(s2.sleep_queue, s2.proc_table[proc].pid).q]

\* A wake-up test that fires one tick before the deadline.
wake_due_early(current_time, sleep_time) == current_time + 1 >= sleep_time

\* scheduler.c:87
wake_due(current_time, sleep_time) == current_time >= sleep_time

\* A wake-up loop that queues a woken process for running and keeps its pid
\* in the sleep queue as well.
RECURSIVE sleep_sweep_requeue(_, _, _)
sleep_sweep_requeue(s, i, current_time) ==
    IF s.panic # NoPanic THEN s
    ELSE IF i < Len(s.sleep_queue)
    THEN LET o == queue_out(s.sleep_queue)
             s1 == [s EXCEPT !.sleep_queue = o.q]
             sleep_proc == pid_to_proc(s1.proc_table, o.item)
             back == [s1 EXCEPT !.sleep_queue =
                         queue_in(s1.sleep_queue, s1.proc_table[sleep_proc].pid).q]
         IN  IF sleep_proc = NULL
             THEN kernel_panic(s1, "Invalid process in sleep queue")
             ELSE IF wake_due(current_time, s1.proc_table[sleep_proc].sleep_time)
             THEN sleep_sweep_requeue(scheduler_add(back, sleep_proc), i + 1, current_time)
             ELSE sleep_sweep_requeue(back, i + 1, current_time)
    ELSE s

\* The wake-up loop of scheduler_run: the bound is the sleep queue's current size.
RECURSIVE sleep_sweep(_, _, _)
sleep_sweep(s, i, current_time) ==
    IF s.panic # NoPanic THEN s
    ELSE IF i < Len(s.sleep_queue)
    THEN LET o == queue_out(s.sleep_queue)
             s1 == [s EXCEPT !.sleep_queue = o.q]
             sleep_proc == pid_to_proc(s1.proc_table, o.item)
         IN  IF sleep_proc = NULL
             THEN kernel_panic(s1, "Invalid process in sleep queue")
             ELSE IF wake_due(current_time, s1.proc_table[sleep_proc].sleep_time)
             THEN sleep_sweep(scheduler_add(s1, sleep_proc), i + 1, current_time)
             ELSE sleep_sweep(
                    [s1 EXCEPT !.sleep_queue =
                        queue_in(s1.sleep_queue, s1.proc_table[sleep_proc].pid).q],
                    i + 1, current_time)
    ELSE s

\* scheduler.c:42-45
run_drop_inactive(s) ==
    IF s.active_proc # NULL /\ s.proc_table[s.active_proc].state # "ACTIVE"
    THEN [s EXCEPT !.active_proc = NULL]
    ELSE s

\* A preemption test that fires only after the quantum has been exceeded.
run_preempt_late(s) ==
    IF s.active_proc # NULL /\ s.proc_table[s.active_proc].cpu_time > SCHEDULER_TIMESLICE
    THEN LET a == s.active_proc
             s1 == [s EXCEPT !.proc_table[a].cpu_time = 0]
             s2 == IF s1.proc_table[a].pid # 0
                   THEN scheduler_add(s1, a)
                   ELSE [s1 EXCEPT !.proc_table[a].state = "IDLE"]
         IN  IF s2.panic # NoPanic THEN s2 ELSE [s2 EXCEPT !.active_proc = NULL]
    ELSE s

\* scheduler.c:47-68
run_preempt(s) ==
    IF s.active_proc # NULL /\ s.proc_table[s.active_proc].cpu_time >= SCHEDULER_TIMESLICE
    THEN LET a == s.active_proc
             s1 == [s EXCEPT !.proc_table[a].cpu_time = 0]
             s2 == IF s1.proc_table[a].pid # 0
                   THEN scheduler_add(s1, a)
                   ELSE [s1 EXCEPT !.proc_table[a].state = "IDLE"]
         IN  IF s2.panic # NoPanic THEN s2 ELSE [s2 EXCEPT !.active_proc = NULL]
    ELSE s

\* scheduler.c:70-106.  When the pid does not resolve, active_proc is NULL
\* and the trace call at line 105 reads through it before the panic at
\* line 110 halts the kernel: the read changes no kernel data.
run_select(s, now) ==
    IF s.panic # NoPanic \/ s.active_proc # NULL THEN s
    ELSE LET s1 == IF ~queue_is_empty(s.sleep_queue) THEN sleep_sweep(s, 0, now) ELSE s
         IN  IF s1.panic # NoPanic THEN s1
             ELSE LET o == queue_out(s1.run_queue)
                      pid == IF o.rc # 0 THEN 0 ELSE o.item
                  IN  [s1 EXCEPT !.run_queue = o.q,
                                 !.active_proc = pid_to_proc(s1.proc_table, pid)]

\* scheduler.c:108-114
run_finish(s) ==
    IF s.panic # NoPanic THEN s
    ELSE IF s.active_proc = NULL THEN kernel_panic(s, "Unable to schedule a process!")
    ELSE [s EXCEPT !.proc_table[s.active_proc].state = "ACTIVE"]

\* run_finish(run_select(run_preempt(run_drop_inactive(s)), now)), each
\* stage evaluated once: a bound variable holds the value of its stage.
scheduler_run(s, now) ==
    CHOOSE r \in {run_finish(c) : c \in
                    {run_select(b, now) : b \in
                       {run_preempt(a) : a \in {run_drop_inactive(s)}}}} : TRUE

\* A timer callback that counts lifetime run time only.
scheduler_timer_lifetime(s) ==
    IF s.active_proc # NULL
    THEN [s EXCEPT !.proc_table[s.active_proc].run_time = @ + 1]
    ELSE s

scheduler_timer(s) ==
    IF s.active_proc # NULL
    THEN [s EXCEPT !.proc_table[s.active_proc].run_time = @ + 1,
                   !.proc_table[s.active_proc].cpu_time = @ + 1]
    ELSE s

(***************************************************************************)
(* kproc.c: creation and destruction.  The result record carries the       *)
(* function's return value in rc and the kernel data in k.  Of the PCB the *)
(* model keeps the fields the scheduler reads; kproc_create leaves         *)
(* sleep_time as the slot's previous occupant left it.                     *)
(***************************************************************************)
\* The table index as the dequeued value (what passing &entry would give).
create_entry_popped(o) == o.item

\* kproc.c:82: the table index kproc_create uses is the value queue_out
\* returns, which is its status (0 on success), not the dequeued index.
create_entry(o) == o.rc

\* kproc_create that takes the next pid before it checks the allocator.
kproc_create_bump(s) ==
    LET o == queue_out(s.proc_allocator)
        entry == create_entry(o)
    IN  IF o.rc = -1
        THEN [rc |-> -1, k |-> [s EXCEPT !.next_pid = @ + 1]]
        ELSE LET s1 == [s EXCEPT !.proc_allocator = o.q,
                                 !.next_pid = @ + 1,
                                 !.proc_table[entry].trapframe = "stack",
                                 !.proc_table[entry].pid = s.next_pid,
                                 !.proc_table[entry].state = "IDLE",
                                 !.proc_table[entry].run_time = 0,
                                 !.proc_table[entry].cpu_time = 0]
                 s2 == scheduler_add(s1, entry)
             IN  [rc |-> s2.proc_table[entry].pid, k |-> s2]

\* kproc_create that hands out next_pid without advancing it.
kproc_create_reuse(s) ==
    LET o == queue_out(s.proc_allocator)
        entry == create_entry(o)
    IN  IF o.rc = -1
        THEN [rc |-> -1, k |-> s]
        ELSE LET s1 == [s EXCEPT !.proc_allocator = o.q,
                                 !.proc_table[entry].trapframe = "stack",
                                 !.proc_table[entry].pid = s.next_pid,
                                 !.proc_table[entry].state = "IDLE",
                                 !.proc_table[entry].run_time = 0,
                                 !.proc_table[entry].cpu_time = 0]
                 s2 == scheduler_add(s1, entry)
             IN  [rc |-> s2.proc_table[entry].pid, k |-> s2]

kproc_create(s) ==
    LET o == queue_out(s.proc_allocator)
        entry == create_entry(o)
    IN  IF o.rc = -1
        THEN [rc |-> -1, k |-> s]
        ELSE LET s1 == [s EXCEPT !.proc_allocator = o.q,
                                 !.next_pid = @ + 1,
                                 !.proc_table[entry].trapframe = "stack",
                                 !.proc_table[entry].pid = s.next_pid,
                                 !.proc_table[entry].state = "IDLE",
                                 !.proc_table[entry].run_time = 0,
                                 !.proc_table[entry].cpu_time = 0]
                 s2 == scheduler_add(s1, entry)
             IN  [rc |-> s2.proc_table[entry].pid, k |-> s2]

\* kproc_destroy without the test for the idle process.
kproc_destroy_any(s, proc) ==
    IF proc = NULL \/ s.proc_table[proc].state = "NONE"
    THEN [rc |-> -1, k |-> s]
    ELSE LET s1 == scheduler_remove(s, proc)
             s2 == [s1 EXCEPT !.proc_table[proc] = ZeroProc]
         IN  [rc |-> 0,
              k |-> [s2 EXCEPT !.proc_allocator = queue_in(s2.proc_allocator, proc).q]]

\* The second memset (kproc.c:149) goes through proc->stack, which the first
\* has just zeroed: it clears memory at address 0, none of the kernel's data.
kproc_destroy(s, proc) ==
    IF proc = NULL \/ s.proc_table[proc].state = "NONE" \/ s.proc_table[proc].pid = 0
    THEN [rc |-> -1, k |-> s]
    ELSE LET s1 == scheduler_remove(s, proc)
             s2 == [s1 EXCEPT !.proc_table[proc] = ZeroProc]
         IN  [rc |-> 0,
              k |-> [s2 EXCEPT !.proc_allocator = queue_in(s2.proc_allocator, proc).q]]

\* kproc_init, run on the zero-initialised globals (next_pid = 0, empty queues).
kproc_init ==
    LET s0 == [proc_table |-> [i \in Slots |-> [ZeroProc EXCEPT !.pid = -1]],
               proc_allocator |-> [i \in 1 .. PROC_MAX |-> i - 1],
               next_pid |-> 0,
               run_queue |-> <<>>,
               sleep_queue |-> <<>>,
               active_proc |-> NULL,
               panic |-> NoPanic,
               trapframe_eax |-> [i \in Slots |-> 0]]
        c == kproc_create(s0)
    IN  IF c.rc = -1 THEN kernel_panic(c.k, "Failed to create idle process") ELSE c.k

(***************************************************************************)
(* ksyscall.c                                                              *)
(***************************************************************************)
\* PROC_EXIT that reschedules without marking the caller NONE.
ksyscall_proc_exit_keep(s, now) ==
    IF s.active_proc = NULL
    THEN [rc |-> -1, k |-> s]
    ELSE [rc |-> 0, k |-> scheduler_run(s, now)]

\* PROC_EXIT that also hands the caller's slot back to the allocator.
ksyscall_proc_exit_reclaim(s, now) ==
    IF s.active_proc = NULL
    THEN [rc |-> -1, k |-> s]
    ELSE [rc |-> 0,
          k |-> scheduler_run([s EXCEPT !.proc_table[s.active_proc].state = "NONE",
                                        !.proc_allocator =
                                            queue_in(s.proc_allocator, s.active_proc).q],
                              now)]

ksyscall_proc_exit(s, now) ==
    IF s.active_proc = NULL
    THEN [rc |-> -1, k |-> s]
    ELSE [rc |-> 0,
          k |-> scheduler_run([s EXCEPT !.proc_table[s.active_proc].state = "NONE"], now)]

ksyscall_proc_sleep(s, seconds, now) ==
    IF s.active_proc = NULL
    THEN [rc |-> -1, k |-> s]
    ELSE [rc |-> 0, k |-> scheduler_sleep(s, s.active_proc, seconds * 100, now)]

(***************************************************************************)
(* The ring-buffer collaborator (not part of the sources): a byte queue of *)
(* capacity RINGBUF_SIZE.  Each function returns the count it transferred  *)
(* and the buffer's new contents.                                          *)
(***************************************************************************)
Min(a, b) == IF a < b THEN a ELSE b

ringbuf_write_mem(b, buf, size) ==
    LET n == Min(Min(size, Len(buf)), RINGBUF_SIZE - Len(b))
    IN  [rc |-> n, b |-> b \o SubSeq(buf, 1, n)]

ringbuf_read_mem(b, size) ==
    LET n == Min(size, Len(b))
    IN  [rc |-> n, b |-> SubSeq(b, n + 1, Len(b))]

ringbuf_flush(b) == <<>>

\* The I/O handlers: rb is the contents of all ring buffers, the result
\* carries the return value and the ring buffers after the call.
ksyscall_io_write(s, rb, io, buf, size) ==
    IF s.active_proc = NULL THEN [rc |-> -1, rb |-> rb]
    ELSE IF io < 0 \/ io >= PROC_IO_MAX THEN [rc |-> -1, rb |-> rb]
    ELSE IF s.proc_table[s.active_proc].io[io] = NULL THEN [rc |-> -1, rb |-> rb]
    ELSE LET h == s.proc_table[s.active_proc].io[io]
             w == ringbuf_write_mem(rb[h], buf, size)
         IN  [rc |-> w.rc, rb |-> [rb EXCEPT ![h] = w.b]]

ksyscall_io_read(s, rb, io, size) ==
    IF s.active_proc = NULL THEN [rc |-> -1, rb |-> rb]
    ELSE IF io < 0 \/ io >= PROC_IO_MAX THEN [rc |-> -1, rb |-> rb]
    ELSE IF s.proc_table[s.active_proc].io[io] = NULL THEN [rc |-> -1, rb |-> rb]
    ELSE LET h == s.proc_table[s.active_proc].io[io]
             r == ringbuf_read_mem(rb[h], size)
         IN  [rc |-> r.rc, rb |-> [rb EXCEPT ![h] = r.b]]

\* A flush that reports success when the handle is null.
ksyscall_io_flush_lenient(s, rb, io) ==
    IF s.active_proc = NULL THEN [rc |-> -1, rb |-> rb]
    ELSE IF io < 0 \/ io >= PROC_IO_MAX THEN [rc |-> -1, rb |-> rb]
    ELSE IF s.proc_table[s.active_proc].io[io] = NULL THEN [rc |-> 0, rb |-> rb]
    ELSE LET h == s.proc_table[s.active_proc].io[io]
         IN  [rc |-> 0, rb |-> [rb EXCEPT ![h] = ringbuf_flush(rb[h])]]

ksyscall_io_flush(s, rb, io) ==
    IF s.active_proc = NULL THEN [rc |-> -1, rb |-> rb]
    ELSE IF io < 0 \/ io >= PROC_IO_MAX THEN [rc |-> -1, rb |-> rb]
    ELSE IF s.proc_table[s.active_proc].io[io] = NULL THEN [rc |-> -1, rb |-> rb]
    ELSE LET h == s.proc_table[s.active_proc].io[io]
         IN  [rc |-> 0, rb |-> [rb EXCEPT ![h] = ringbuf_flush(rb[h])]]

ksyscall_sys_get_time(now) == now \div 100

\* The name is copied into the caller's buffer, which is no kernel data.
ksyscall_sys_get_name(name) == IF name = NULL THEN -1 ELSE 0

ksyscall_proc_get_pid(s) ==
    IF s.active_proc = NULL THEN -1 ELSE s.proc_table[s.active_proc].pid

ksyscall_proc_get_name(s, name) ==
    IF s.active_proc = NULL \/ name = NULL THEN -1 ELSE 0

(***************************************************************************)
(* Service identifiers (ksyscall.h is not part of the sources): distinct   *)
(* numbers that are no return value of a handler.                          *)
(***************************************************************************)
SYSCALL_SYS_GET_TIME == 4097
SYSCALL_SYS_GET_NAME == 4098
SYSCALL_PROC_EXIT == 4099
SYSCALL_PROC_GET_PID == 4100
SYSCALL_PROC_GET_NAME == 4101
SYSCALL_PROC_SLEEP == 4102
SYSCALL_IO_READ == 4103
SYSCALL_IO_WRITE == 4104
SYSCALL_IO_FLUSH == 4105

\* The services the dispatch table is specified to cover.
ServiceTable ==
    {SYSCALL_SYS_GET_TIME, SYSCALL_SYS_GET_NAME, SYSCALL_PROC_EXIT,
     SYSCALL_PROC_GET_PID, SYSCALL_PROC_GET_NAME, SYSCALL_PROC_SLEEP,
     SYSCALL_IO_READ, SYSCALL_IO_WRITE, SYSCALL_IO_FLUSH}

\* A number that identifies no service.
NoService == 4096

Dispatched ==
    {SYSCALL_SYS_GET_TIME, SYSCALL_SYS_GET_NAME, SYSCALL_PROC_EXIT,
     SYSCALL_PROC_GET_PID, SYSCALL_PROC_GET_NAME}

\* ksyscall.c:41-71: the handler's result is stored through active_proc as
\* it is after the handler returned; a handler that halts the kernel
\* never returns, and nothing is stored.
irq_return(r) ==
    IF r.k.panic # NoPanic THEN r
    ELSE [r EXCEPT !.k.trapframe_eax[r.k.active_proc] = r.rc]

\* ksyscall_irq_handler with ebx the argument register of the saved context.
ksyscall_irq_handler(s, ebx, now) ==
    IF s.active_proc = NULL
    THEN [rc |-> -1, k |-> kernel_panic(s, "Invalid process")]
    ELSE IF s.proc_table[s.active_proc].trapframe = "NULL"
    THEN [rc |-> -1, k |-> kernel_panic(s, "Invalid trapframe")]
    ELSE LET eax == s.trapframe_eax[s.active_proc]
         IN  IF eax = SYSCALL_SYS_GET_TIME
             THEN irq_return([rc |-> ksyscall_sys_get_time(now), k |-> s])
             ELSE IF eax = SYSCALL_SYS_GET_NAME
             THEN irq_return([rc |-> ksyscall_sys_get_name(ebx), k |-> s])
             ELSE IF eax = SYSCALL_PROC_EXIT
             THEN irq_return(ksyscall_proc_exit(s, now))
             ELSE IF eax = SYSCALL_PROC_GET_PID
             THEN irq_return([rc |-> ksyscall_proc_get_pid(s), k |-> s])
             ELSE IF eax = SYSCALL_PROC_GET_NAME
             THEN irq_return([rc |-> ksyscall_proc_get_name(s, ebx), k |-> s])
             ELSE [rc |-> -1, k |-> kernel_panic(s, "Invalid system call")]

\* The trap: the entry stub saves the caller's registers, eax holding the
\* service identifier, in the caller's stack, then the handler runs.
syscall_trap(s, id, ebx, now) ==
    ksyscall_irq_handler([s EXCEPT !.trapframe_eax[s.active_proc] = id], ebx, now)

(***************************************************************************)
(* bit.c                                                                   *)
(***************************************************************************)
\* The loop of bit_count: shift right, then add the lowest bit.
RECURSIVE bit_count_loop(_, _)
bit_count_loop(number, count) ==
    IF number > 0
    THEN LET shifted == number \div 2
         IN  bit_count_loop(shifted, count + (shifted % 2))
    ELSE count

bit_count(value) == bit_count_loop(value, 0)

\* The reference: the number of binary digits of value that are 1.
RECURSIVE PopCount(_)
PopCount(value) == IF value = 0 THEN 0 ELSE (value % 2) + PopCount(value \div 2)

(***************************************************************************)
(* tty.c.  A character is its ASCII code.  The screen is scaled down from  *)
(* 80 x 25; TAB_WIDTH is the source's.                                     *)
(***************************************************************************)
TTY_WIDTH == 5
TTY_HEIGHT == 2
TAB_WIDTH == 4
echo_enabled == 1

CHAR_NL == 10
CHAR_CR == 13
CHAR_BS == 8
CHAR_TAB == 9
CHAR_SPACE == 32

TtyCells == 0 .. (TTY_WIDTH * TTY_HEIGHT - 1)

\* A tty_t of the zero-initialised tty_table, with the scrolling mode given.
ZeroTty(scroll) ==
    [pos_x |-> 0, pos_y |-> 0, pos_scroll |-> scroll, refresh |-> 0,
     buf |-> [i \in TtyCells |-> 0]]

\* active_tty->buf[i] = c.  A store outside the array does not change the
\* array; where it lands is not defined.
tty_store(tty, i, c) ==
    IF i \in TtyCells THEN [tty EXCEPT !.buf[i] = c] ELSE tty

tty_scroll_up(tty) ==
    [tty EXCEPT !.buf = [i \in TtyCells |->
                            IF i < (TTY_HEIGHT - 1) * TTY_WIDTH
                            THEN tty.buf[i + TTY_WIDTH]
                            ELSE CHAR_SPACE]]

\* The switch of tty_update: the tty and the indices stored to.
tty_switch(tty, c) ==
    CASE c = CHAR_NL  -> [tty |-> [tty EXCEPT !.pos_x = 0, !.pos_y = tty.pos_y + 1],
                          written |-> {}]
      [] c = CHAR_CR  -> [tty |-> [tty EXCEPT !.pos_x = 0], written |-> {}]
      [] c = CHAR_BS  ->
            IF tty.pos_x > 0
            THEN LET i == tty.pos_y * TTY_WIDTH + (tty.pos_x - 1)
                 IN  [tty |-> tty_store([tty EXCEPT !.pos_x = tty.pos_x - 1], i, CHAR_SPACE),
                      written |-> {i}]
            ELSE [tty |-> tty, written |-> {}]
      [] c = CHAR_TAB -> [tty |-> [tty EXCEPT !.pos_x = (tty.pos_x + TAB_WIDTH) % TTY_WIDTH],
                          written |-> {}]
      [] OTHER        ->
            LET i == tty.pos_y * TTY_WIDTH + tty.pos_x
            IN  [tty |-> [tty_store(tty, i, c) EXCEPT !.pos_x = tty.pos_x + 1],
                 written |-> {i}]

\* "Handle scrolling": line wrap, then the row limit, in either mode.
tty_wrap(tty) ==
    LET wraps == tty.pos_x >= TTY_WIDTH
        t1 == IF wraps
              THEN LET moved == [tty EXCEPT !.pos_x = 0, !.pos_y = tty.pos_y + 1]
                   IN  IF tty.pos_scroll = 0 THEN moved ELSE tty_scroll_up(moved)
              ELSE tty
        t2 == IF t1.pos_y >= TTY_HEIGHT
              THEN [t1 EXCEPT !.pos_y = IF tty.pos_scroll = 0 THEN 0 ELSE TTY_HEIGHT - 1]
              ELSE t1
    IN  [tty |-> t2,
         written |-> IF wraps /\ tty.pos_scroll # 0 THEN TtyCells ELSE {}]

\* The echo at the end of tty_update.
tty_echo(tty, c) ==
    IF echo_enabled # 0
    THEN LET i == tty.pos_y * TTY_WIDTH + (tty.pos_x - 1)
         IN  [tty |-> tty_store(tty, i, c), written |-> {i}]
    ELSE [tty |-> tty, written |-> {}]

tty_update(tty, c) ==
    LET s1 == tty_switch(tty, c)
        s2 == tty_wrap(s1.tty)
        s3 == tty_echo([s2.tty EXCEPT !.refresh = 1], c)
    IN  [tty |-> s3.tty, written |-> s1.written \cup s2.written \cup s3.written]

(***************************************************************************)
(* vga.c.  The screen is scaled down from 80 x 25, the width staying a     *)
(* multiple of TAB_STOP.  A cell holds its character; the colours are the  *)
(* defaults throughout.  The display is the record of current_row,         *)
(* current_col and buf.                                                    *)
(***************************************************************************)
VGA_WIDTH == 8
VGA_HEIGHT == 3
TAB_STOP == 4

VgaCells == 0 .. (VGA_WIDTH * VGA_HEIGHT - 1)

\* vga_buf[i] = VGA_CHAR(bg_color, fg_color, c)
vga_store(v, i, c) ==
    IF i \in VgaCells THEN [v EXCEPT !.buf[i] = c] ELSE v

vga_clear(v) ==
    [current_row |-> 0, current_col |-> 0, buf |-> [i \in VgaCells |-> CHAR_SPACE]]

\* vga_set_rowcol that stores its arguments as they come.
vga_set_rowcol_raw(v, row, col) ==
    [v EXCEPT !.current_row = row, !.current_col = col]

vga_set_rowcol(v, row, col) ==
    [v EXCEPT !.current_row = IF row >= 0 /\ row < VGA_HEIGHT THEN row
                              ELSE IF row < 0 THEN 0 ELSE VGA_HEIGHT - 1,
              !.current_col = IF col >= 0 /\ col < VGA_WIDTH THEN col
                              ELSE IF col < 0 THEN 0 ELSE VGA_WIDTH - 1]

vga_setc(v, c) ==
    LET w == vga_store(v, v.current_row * VGA_WIDTH + v.current_col, c)
        col == v.current_col + 1
    IN  IF col >= VGA_WIDTH
        THEN [w EXCEPT !.current_col = 0,
                       !.current_row = IF v.current_row + 1 >= VGA_HEIGHT
                                       THEN 0 ELSE v.current_row + 1]
        ELSE [w EXCEPT !.current_col = col]

\* (current_col + TAB_STOP) & ~(TAB_STOP - 1), TAB_STOP being a power of two
vga_tab(col) == ((col + TAB_STOP) \div TAB_STOP) * TAB_STOP

\* The switch of vga_putc.
vga_putc_switch(v, c) ==
    CASE c = CHAR_NL  -> [v EXCEPT !.current_row = v.current_row + 1, !.current_col = 0]
      [] c = CHAR_CR  -> [v EXCEPT !.current_col = 0]
      [] c = CHAR_TAB -> [v EXCEPT !.current_col = vga_tab(v.current_col)]
      [] c = CHAR_BS  ->
            IF v.current_col > 0
            THEN vga_store([v EXCEPT !.current_col = v.current_col - 1],
                           v.current_row * VGA_WIDTH + (v.current_col - 1), CHAR_SPACE)
            ELSE v
      [] OTHER        ->
            [vga_store(v, v.current_row * VGA_WIDTH + v.current_col, c)
                EXCEPT !.current_col = v.current_col + 1]

\* "Handle wrapping" of vga_putc.
vga_putc_wrap(v) ==
    LET w == IF v.current_col >= VGA_WIDTH
             THEN [v EXCEPT !.current_col = 0, !.current_row = v.current_row + 1]
             ELSE v
    IN  IF w.current_row >= VGA_HEIGHT THEN [w EXCEPT !.current_row = 0] ELSE w

vga_putc(v, c) == vga_putc_wrap(vga_putc_switch(v, c))

vga_scroll(v) ==
    [v EXCEPT !.buf = [i \in VgaCells |->
                          IF i < (VGA_HEIGHT - 1) * VGA_WIDTH
                          THEN v.buf[i + VGA_WIDTH]
                          ELSE CHAR_SPACE],
              !.current_row = IF v.current_row - 1 < 0 THEN 0 ELSE v.current_row - 1]

\* vga_init: the cleared screen.
vga_init == vga_clear([current_row |-> 0, current_col |-> 0,
                       buf |-> [i \in VgaCells |-> 0]])

(***************************************************************************)
(* keyboard.c.  The modifier state is the record of the four statics.      *)
(***************************************************************************)
KEY_NULL == 0

ASCII_LEFT_SHIFT == 42
ASCII_RIGHT_SHIFT == 54
ASCII_CTRL == 29
ASCII_ALT == 56
ASCII_CAPS_LOCK == 58

\* char ascii_values[128]: the initialiser lists the 128 ASCII codes in
\* order ('\0' .. '\037', ' ' .. '\177'), so entry i holds the code i.
ascii_values == [i \in 0 .. 127 |-> i]

ZeroKbd == [shift_pressed |-> 0, caps_lock_on |-> 0, ctrl_pressed |-> 0, alt_pressed |-> 0]

\* keyboard_decode(c): the value returned and the modifier state left.
keyboard_decode(kb, c) ==
    LET is_pressed == IF (c \div 128) % 2 = 0 THEN 1 ELSE 0
        key_code == c % 128
    IN  IF key_code = ASCII_LEFT_SHIFT \/ key_code = ASCII_RIGHT_SHIFT
        THEN [rc |-> KEY_NULL, kb |-> [kb EXCEPT !.shift_pressed = is_pressed]]
        ELSE IF key_code = ASCII_CAPS_LOCK
        THEN [rc |-> KEY_NULL,
              kb |-> IF is_pressed # 0
                     THEN [kb EXCEPT !.caps_lock_on = IF kb.caps_lock_on = 0 THEN 1 ELSE 0]
                     ELSE kb]
        ELSE IF key_code = ASCII_CTRL
        THEN [rc |-> KEY_NULL, kb |-> [kb EXCEPT !.ctrl_pressed = is_pressed]]
        ELSE IF key_code = ASCII_ALT
        THEN [rc |-> KEY_NULL, kb |-> [kb EXCEPT !.alt_pressed = is_pressed]]
        ELSE LET is_uppercase == \/ (kb.shift_pressed # 0 /\ kb.caps_lock_on = 0)
                                 \/ (kb.shift_pressed = 0 /\ kb.caps_lock_on # 0)
                 table == ascii_values[key_code]
                 ascii_code == IF table >= 97 /\ table <= 122
                               THEN IF is_uppercase
                                    THEN table - (97 - 65)
                                    ELSE table + (97 - 65)
                               ELSE table
             IN  [rc |-> IF is_pressed # 0 THEN ascii_code ELSE KEY_NULL, kb |-> kb]

\* The devices as tty_init and vga_init leave them, the keyboard statics as
\* initialised.
DevInit ==
    /\ active_tty = ZeroTty(0)
    /\ tty_written = {}
    /\ tty_input = <<>>
    /\ current_row = vga_init.current_row
    /\ current_col = vga_init.current_col
    /\ vga_buf = vga_init.buf
    /\ vga_calls = 0
    /\ shift_pressed = ZeroKbd.shift_pressed
    /\ caps_lock_on = ZeroKbd.caps_lock_on
    /\ ctrl_pressed = ZeroKbd.ctrl_pressed
    /\ alt_pressed = ZeroKbd.alt_pressed
    /\ kbd_events = <<>>

(***************************************************************************)
(* The state machine.                                                      *)
(***************************************************************************)
ExampleScript ==
    <<"kproc_create", "kproc_create", "scheduler_run", "scheduler_timer",
      "scheduler_run", "scheduler_timer", "scheduler_run">>

Advance(op) ==
    IF script_pos >= 0 /\ script_pos < Len(ExampleScript) /\ ExampleScript[script_pos + 1] = op
    THEN script_pos + 1
    ELSE -1

NoUndo == [proc |-> NULL, queue |-> <<>>, removed |-> FALSE]

Op(op, rc, arg) == [op |-> op, rc |-> rc, arg |-> arg]

SetK(s) ==
    /\ proc_table' = s.proc_table
    /\ proc_allocator' = s.proc_allocator
    /\ next_pid' = s.next_pid
    /\ run_queue' = s.run_queue
    /\ sleep_queue' = s.sleep_queue
    /\ active_proc' = s.active_proc
    /\ panic' = s.panic
    /\ trapframe_eax' = s.trapframe_eax

ActivePid == IF active_proc = NULL THEN NULL ELSE proc_table[active_proc].pid

Init ==
    /\ proc_table = kproc_init.proc_table
    /\ proc_allocator = kproc_init.proc_allocator
    /\ next_pid = kproc_init.next_pid
    /\ run_queue = kproc_init.run_queue
    /\ sleep_queue = kproc_init.sleep_queue
    /\ active_proc = kproc_init.active_proc
    /\ panic = kproc_init.panic
    /\ trapframe_eax = kproc_init.trapframe_eax
    /\ ticks = 0
    /\ lastOp = Op("kproc_init", 0, NULL)
    /\ sleep_issued = {}
    /\ exited = {}
    /\ destroyed = {}
    /\ script_pos = 0
    /\ undo = NoUndo
    /\ created = {0}
    /\ ringbuf = [h \in BufIds |-> <<>>]
    /\ DevInit

\* kproc_create(proc_ptr, name, type), called by the kernel or a test.
Create ==
    /\ panic = NoPanic
    /\ (next_pid < MaxPid \/ (queue_is_empty(proc_allocator) /\ next_pid = MaxPid))
    /\ LET c == kproc_create(K)
       IN  /\ SetK(c.k)
           /\ lastOp' = Op("kproc_create", c.rc, NULL)
           /\ created' = IF c.rc # -1 THEN created \cup {c.rc} ELSE created
    /\ script_pos' = Advance("kproc_create")
    /\ UNCHANGED <<ringbuf, devvars>>
    /\ undo' = NoUndo
    /\ UNCHANGED <<ticks, sleep_issued, exited, destroyed>>

\* kproc_destroy(proc) for a pointer to any table entry, or NULL.
Destroy ==
    /\ panic = NoPanic
    /\ \E proc \in Slots \cup {NULL} :
         LET d == kproc_destroy(K, proc)
         IN  /\ SetK(d.k)
             /\ lastOp' = Op("kproc_destroy", d.rc, proc)
             /\ destroyed' = IF d.rc = 0 THEN destroyed \cup {proc_table[proc].pid}
                             ELSE destroyed
    /\ script_pos' = Advance("kproc_destroy")
    /\ UNCHANGED <<ringbuf, devvars>>
    /\ UNCHANGED created
    /\ undo' = NoUndo
    /\ UNCHANGED <<ticks, sleep_issued, exited>>

\* One timer interrupt: the tick count advances and the timer calls the
\* callback scheduler_init registered with interval 1.
Tick ==
    /\ panic = NoPanic
    /\ ticks < MaxTicks
    /\ ticks' = ticks + 1
    /\ SetK(scheduler_timer(K))
    /\ lastOp' = Op("scheduler_timer", 0, NULL)
    /\ script_pos' = Advance("scheduler_timer")
    /\ UNCHANGED <<ringbuf, devvars>>
    /\ UNCHANGED created
    /\ undo' = NoUndo
    /\ UNCHANGED <<sleep_issued, exited, destroyed>>

Run ==
    /\ panic = NoPanic
    /\ SetK(scheduler_run(K, ticks))
    /\ lastOp' = Op("scheduler_run", 0, NULL)
    /\ script_pos' = Advance("scheduler_run")
    /\ UNCHANGED <<ringbuf, devvars>>
    /\ UNCHANGED created
    /\ undo' = NoUndo
    /\ UNCHANGED <<ticks, sleep_issued, exited, destroyed>>

\* A trap of the running process: the one scheduler_run made active.
\* kproc_idle (pid 0) only halts the CPU and never requests a service.
Trapping ==
    /\ active_proc # NULL
    /\ proc_table[active_proc].state = "ACTIVE"
    /\ proc_table[active_proc].pid # 0

\* The running process requests SYSCALL_PROC_EXIT.
ProcExit ==
    /\ panic = NoPanic
    /\ Trapping
    /\ LET e == syscall_trap(K, SYSCALL_PROC_EXIT, NULL, ticks)
       IN  /\ SetK(e.k)
           /\ lastOp' = Op("PROC_EXIT", e.rc, active_proc)
    /\ exited' = exited \cup {ActivePid}
    /\ script_pos' = Advance("PROC_EXIT")
    /\ UNCHANGED <<ringbuf, devvars>>
    /\ UNCHANGED created
    /\ undo' = NoUndo
    /\ UNCHANGED <<ticks, sleep_issued, destroyed>>

\* scheduler_sleep(active_proc, time), as ksyscall_proc_sleep issues it.
Sleep ==
    /\ panic = NoPanic
    /\ Trapping
    /\ \E time \in 0 .. MaxSleep :
         /\ SetK(scheduler_sleep(K, active_proc, time, ticks))
         /\ lastOp' = Op("scheduler_sleep", 0, active_proc)
         /\ sleep_issued' = sleep_issued \cup {<<ActivePid, ticks + time>>}
    /\ script_pos' = Advance("scheduler_sleep")
    /\ UNCHANGED <<ringbuf, devvars>>
    /\ UNCHANGED created
    /\ undo' = NoUndo
    /\ UNCHANGED <<ticks, exited, destroyed>>

Next == Create \/ Destroy \/ Tick \/ Run \/ ProcExit \/ Sleep

Spec == Init /\ [][Next]_vars

(***************************************************************************)
(* scheduler_remove called directly on a live PCB (kproc_destroy and       *)
(* scheduler_sleep are its callers in the sources; it is a public function *)
(* of the scheduler).                                                      *)
(***************************************************************************)
Live == {i \in Slots : proc_table[i].state # "NONE"}

CallRemove ==
    /\ panic = NoPanic
    /\ \E proc \in Live :
         /\ SetK(scheduler_remove(K, proc))
         /\ lastOp' = Op("scheduler_remove", 0, proc)
         /\ undo' = IF undo.proc = proc /\ ~undo.removed
                    THEN [undo EXCEPT !.removed = TRUE]
                    ELSE NoUndo
    /\ script_pos' = Advance("scheduler_remove")
    /\ UNCHANGED <<ringbuf, devvars>>
    /\ UNCHANGED created
    /\ UNCHANGED <<ticks, sleep_issued, exited, destroyed>>

NextAPI == Next \/ CallRemove

SpecAPI == Init /\ [][NextAPI]_vars

(***************************************************************************)
(* The scheduler's queue operations on their own.  The initial states are  *)
(* the scheduler states of a full process table (slot i holds pid i) with  *)
(* any run queue of distinct pids: a queued process is IDLE and refers to  *)
(* the run queue, the others have been removed from the scheduler.         *)
(* scheduler_add is called, as by its callers kproc_create and             *)
(* scheduler_run, on a process that is in no queue.                        *)
(***************************************************************************)
Range(q) == {q[i] : i \in 1 .. Len(q)}

DistinctSeqs(S) ==
    {q \in UNION {[1 .. n -> S] : n \in 0 .. Cardinality(S)} :
        \A i, j \in 1 .. Len(q) : i # j => q[i] # q[j]}

InitSched ==
    /\ run_queue \in DistinctSeqs(Slots)
    /\ proc_table = [i \in Slots |->
                       [ZeroProc EXCEPT !.pid = i, !.state = "IDLE",
                                        !.trapframe = "stack",
                                        !.scheduler_queue =
                                            IF i \in Range(run_queue)
                                            THEN "run_queue" ELSE "NULL"]]
    /\ proc_allocator = <<>>
    /\ next_pid = PROC_MAX
    /\ sleep_queue = <<>>
    /\ active_proc = NULL
    /\ panic = NoPanic
    /\ trapframe_eax = [i \in Slots |-> 0]
    /\ ticks = 0
    /\ lastOp = Op("scheduler_init", 0, NULL)
    /\ sleep_issued = {}
    /\ exited = {}
    /\ destroyed = {}
    /\ script_pos = -1
    /\ undo = NoUndo
    /\ created = Slots
    /\ ringbuf = [h \in BufIds |-> <<>>]
    /\ DevInit

CallAdd ==
    /\ panic = NoPanic
    /\ \E proc \in Live :
         /\ proc_table[proc].pid \notin Range(run_queue) \cup Range(sleep_queue)
         /\ SetK(scheduler_add(K, proc))
         /\ lastOp' = Op("scheduler_add", 0, proc)
         /\ undo' = [proc |-> proc, queue |-> run_queue, removed |-> FALSE]
    /\ script_pos' = Advance("scheduler_add")
    /\ UNCHANGED <<ringbuf, devvars>>
    /\ UNCHANGED created
    /\ UNCHANGED <<ticks, sleep_issued, exited, destroyed>>

NextSched == CallAdd \/ CallRemove

SpecSched == InitSched /\ [][NextSched]_vars

(***************************************************************************)
(* The I/O handlers on their own.  The initial states give the process in  *)
(* slot 0 any binding of its I/O handles (null or a ring buffer), make it  *)
(* the active process or leave active_proc null, and fill the ring buffers *)
(* with any contents.  io ranges over the valid indices and one value      *)
(* beyond each end.                                                        *)
(***************************************************************************)
Bytes == {7}

BufContents == UNION {[1 .. n -> Bytes] : n \in 0 .. RINGBUF_SIZE}

InitIO ==
    /\ \E h \in [0 .. (PROC_IO_MAX - 1) -> BufIds \cup {NULL}] :
         proc_table = [i \in Slots |->
                          IF i = 0
                          THEN [ZeroProc EXCEPT !.pid = 1, !.state = "ACTIVE",
                                                !.trapframe = "stack", !.io = h]
                          ELSE [ZeroProc EXCEPT !.pid = -1]]
    /\ active_proc \in {NULL, 0}
    /\ ringbuf \in [BufIds -> BufContents]
    /\ DevInit
    /\ proc_allocator = <<1, 2, 3>>
    /\ next_pid = 2
    /\ run_queue = <<>>
    /\ sleep_queue = <<>>
    /\ panic = NoPanic
    /\ trapframe_eax = [i \in Slots |-> 0]
    /\ ticks = 0
    /\ lastOp = Op("kproc_init", 0, NULL)
    /\ sleep_issued = {}
    /\ exited = {}
    /\ destroyed = {}
    /\ script_pos = -1
    /\ undo = NoUndo
    /\ created = {0, 1}

IoIndices == -1 .. PROC_IO_MAX

IoFrame ==
    /\ script_pos' = script_pos
    /\ undo' = NoUndo
    /\ UNCHANGED <<kvars, ticks, sleep_issued, exited, destroyed, created, devvars>>

IoWrite ==
    /\ \E io \in IoIndices, size \in 0 .. RINGBUF_SIZE :
         LET w == ksyscall_io_write(K, ringbuf, io, [i \in 1 .. size |-> 7], size)
         IN  /\ ringbuf' = w.rb
             /\ lastOp' = Op("ksyscall_io_write", w.rc, io)
    /\ IoFrame

IoRead ==
    /\ \E io \in IoIndices, size \in 0 .. RINGBUF_SIZE :
         LET r == ksyscall_io_read(K, ringbuf, io, size)
         IN  /\ ringbuf' = r.rb
             /\ lastOp' = Op("ksyscall_io_read", r.rc, io)
    /\ IoFrame

IoFlush ==
    /\ \E io \in IoIndices :
         LET f == ksyscall_io_flush(K, ringbuf, io)
         IN  /\ ringbuf' = f.rb
             /\ lastOp' = Op("ksyscall_io_flush", f.rc, io)
    /\ IoFrame

NextIO == IoWrite \/ IoRead \/ IoFlush

SpecIO == InitIO /\ [][NextIO]_vars

(***************************************************************************)
(* bit_count on its own: the initial states hold every value of BitWidth   *)
(* bits as the argument, the one action calls the function on it.          *)
(***************************************************************************)
InitBits ==
    /\ proc_table = kproc_init.proc_table
    /\ proc_allocator = kproc_init.proc_allocator
    /\ next_pid = kproc_init.next_pid
    /\ run_queue = kproc_init.run_queue
    /\ sleep_queue = kproc_init.sleep_queue
    /\ active_proc = kproc_init.active_proc
    /\ panic = kproc_init.panic
    /\ trapframe_eax = kproc_init.trapframe_eax
    /\ ticks = 0
    /\ \E value \in 0 .. (2 ^ BitWidth - 1) : lastOp = Op("value", 0, value)
    /\ sleep_issued = {}
    /\ exited = {}
    /\ destroyed = {}
    /\ script_pos = -1
    /\ undo = NoUndo
    /\ created = {0}
    /\ ringbuf = [h \in BufIds |-> <<>>]
    /\ DevInit

BitCount ==
    /\ lastOp.op = "value"
    /\ lastOp' = Op("bit_count", bit_count(lastOp.arg), lastOp.arg)
    /\ UNCHANGED <<kvars, ticks, sleep_issued, exited, destroyed, script_pos, undo,
                   created, ringbuf, devvars>>

NextBits == BitCount

SpecBits == InitBits /\ [][NextBits]_vars

(***************************************************************************)
(* scheduler_run over several sleeping processes.  The initial states are  *)
(* a full process table (slot i holds pid i, pid 0 the idle process) in    *)
(* which any of the other processes have called scheduler_sleep, in any    *)
(* order and with any deadline, and the rest wait in the run queue; no     *)
(* process is active.  Timer ticks and scheduler_run follow.               *)
(***************************************************************************)
SeqOfSet(S) == CHOOSE q \in DistinctSeqs(S) : Range(q) = S

InitSweep ==
    /\ sleep_queue \in DistinctSeqs(Slots \ {0})
    /\ run_queue = SeqOfSet((Slots \ {0}) \ Range(sleep_queue))
    /\ \E deadline \in [Slots -> 0 .. MaxSleep] :
         proc_table = [i \in Slots |->
                          IF i \in Range(sleep_queue)
                          THEN [ZeroProc EXCEPT !.pid = i, !.state = "SLEEPING",
                                                !.trapframe = "stack",
                                                !.sleep_time = deadline[i]]
                          ELSE [ZeroProc EXCEPT !.pid = i, !.state = "IDLE",
                                                !.trapframe = "stack",
                                                !.scheduler_queue =
                                                    IF i = 0 THEN "NULL" ELSE "run_queue"]]
    /\ proc_allocator = <<>>
    /\ next_pid = PROC_MAX
    /\ active_proc = NULL
    /\ panic = NoPanic
    /\ trapframe_eax = [i \in Slots |-> 0]
    /\ ticks = 0
    /\ lastOp = Op("scheduler_init", 0, NULL)
    /\ sleep_issued = {}
    /\ exited = {}
    /\ destroyed = {}
    /\ script_pos = -1
    /\ undo = NoUndo
    /\ created = Slots
    /\ ringbuf = [h \in BufIds |-> <<>>]
    /\ DevInit

NextSweep == Tick \/ Run

SpecSweep == InitSweep /\ [][NextSweep]_vars

(***************************************************************************)
(* pid_to_proc on its own.  The initial states are the process tables in   *)
(* which each slot is live, was left by an exited process (its pid, state  *)
(* NONE), or was zeroed by kproc_destroy (pid field 0, state NONE); live   *)
(* processes have distinct pids, and an exited process's pid is no live    *)
(* process's pid.  The action looks a pid up.                              *)
(***************************************************************************)
LookupPids == 0 .. 2

TableEntries ==
    {[ZeroProc EXCEPT !.pid = p, !.state = st] :
        p \in LookupPids, st \in {"NONE", "IDLE", "SLEEPING"}}

InitTable ==
    /\ proc_table \in [Slots -> TableEntries]
    /\ \A i, j \in Slots :
          (i # j /\ proc_table[i].pid = proc_table[j].pid)
             => \/ proc_table[i].state = "NONE" /\ proc_table[j].state = "NONE"
                \/ proc_table[i].pid = 0
    /\ Cardinality({i \in Slots : proc_table[i].pid = 0 /\ proc_table[i].state # "NONE"}) <= 1
    /\ proc_allocator = <<>>
    /\ next_pid = 3
    /\ run_queue = <<>>
    /\ sleep_queue = <<>>
    /\ active_proc = NULL
    /\ panic = NoPanic
    /\ trapframe_eax = [i \in Slots |-> 0]
    /\ ticks = 0
    /\ lastOp = Op("kproc_init", 0, NULL)
    /\ sleep_issued = {}
    /\ exited = {}
    /\ destroyed = {}
    /\ script_pos = -1
    /\ undo = NoUndo
    /\ created = LookupPids
    /\ ringbuf = [h \in BufIds |-> <<>>]
    /\ DevInit

Lookup ==
    /\ \E pid \in LookupPids \cup {3} :
         lastOp' = Op("pid_to_proc", pid_to_proc(proc_table, pid), pid)
    /\ UNCHANGED <<kvars, ticks, sleep_issued, exited, destroyed, script_pos, undo,
                   created, ringbuf, devvars>>

NextTable == Lookup

SpecTable == InitTable /\ [][NextTable]_vars

(***************************************************************************)
(* Exit and destruction among several processes: from the states of        *)
(* InitSweep, where the idle process exists and other processes wait, the  *)
(* running process may exit and any PCB may be passed to kproc_destroy.    *)
(***************************************************************************)
NextExit == Tick \/ Run \/ ProcExit \/ Destroy

SpecExit == InitSweep /\ [][NextExit]_vars

(***************************************************************************)
(* The other services the running process can request, with either a null  *)
(* or a valid buffer pointer in ebx.                                       *)
(***************************************************************************)
TrapIds == (ServiceTable \ {SYSCALL_PROC_EXIT}) \cup {NoService}

Trap ==
    /\ panic = NoPanic
    /\ Trapping
    /\ \E id \in TrapIds, ebx \in {NULL, 1} :
         LET r == syscall_trap(K, id, ebx, ticks)
         IN  /\ SetK(r.k)
             /\ lastOp' = Op(IF id \in Dispatched THEN "syscall" ELSE "bad_syscall",
                             r.rc, active_proc)
    /\ script_pos' = Advance("syscall")
    /\ UNCHANGED <<ringbuf, devvars>>
    /\ UNCHANGED created
    /\ undo' = NoUndo
    /\ UNCHANGED <<ticks, sleep_issued, exited, destroyed>>

NextTrap == Next \/ Trap

SpecTrap == Init /\ [][NextTrap]_vars

(***************************************************************************)
(* The TTY on its own: the selected TTY starts zeroed, in non-scrolling or *)
(* in scrolling mode, and receives up to MaxInput characters.              *)
(***************************************************************************)
MaxInput == 6

TtyChars == {CHAR_NL, CHAR_CR, CHAR_BS, CHAR_TAB, 97}

InitTty ==
    /\ proc_table = kproc_init.proc_table
    /\ proc_allocator = kproc_init.proc_allocator
    /\ next_pid = kproc_init.next_pid
    /\ run_queue = kproc_init.run_queue
    /\ sleep_queue = kproc_init.sleep_queue
    /\ active_proc = kproc_init.active_proc
    /\ panic = kproc_init.panic
    /\ trapframe_eax = kproc_init.trapframe_eax
    /\ ticks = 0
    /\ lastOp = Op("tty_init", 0, NULL)
    /\ sleep_issued = {}
    /\ exited = {}
    /\ destroyed = {}
    /\ script_pos = -1
    /\ undo = NoUndo
    /\ created = {0}
    /\ ringbuf = [h \in BufIds |-> <<>>]
    /\ \E scroll \in {0, 1} : active_tty = ZeroTty(scroll)
    /\ tty_written = {}
    /\ tty_input = <<>>
    /\ current_row = vga_init.current_row
    /\ current_col = vga_init.current_col
    /\ vga_buf = vga_init.buf
    /\ vga_calls = 0
    /\ shift_pressed = ZeroKbd.shift_pressed
    /\ caps_lock_on = ZeroKbd.caps_lock_on
    /\ ctrl_pressed = ZeroKbd.ctrl_pressed
    /\ alt_pressed = ZeroKbd.alt_pressed
    /\ kbd_events = <<>>

\* tty_update(c).  A store outside the buffer leaves what follows undefined,
\* so no further call is followed after one.
TtyUpdate ==
    /\ Len(tty_input) < MaxInput
    /\ tty_written \subseteq TtyCells
    /\ \E c \in TtyChars :
         LET u == tty_update(active_tty, c)
         IN  /\ active_tty' = u.tty
             /\ tty_written' = u.written
             /\ tty_input' = Append(tty_input, c)
             /\ lastOp' = Op("tty_update", 0, c)
    /\ UNCHANGED <<kvars, ticks, sleep_issued, exited, destroyed, script_pos, undo,
                   created, ringbuf, vgavars, kbdvars>>

NextTty == TtyUpdate

SpecTty == InitTty /\ [][NextTty]_vars

(***************************************************************************)
(* The VGA driver on its own: after vga_init, up to MaxVgaCalls calls of   *)
(* the functions that move the current position.                           *)
(***************************************************************************)
MaxVgaCalls == 3

VgaChars == {CHAR_NL, CHAR_CR, CHAR_BS, CHAR_TAB, 97}

V == [current_row |-> current_row, current_col |-> current_col, buf |-> vga_buf]

SetV(v) ==
    /\ current_row' = v.current_row
    /\ current_col' = v.current_col
    /\ vga_buf' = v.buf
    /\ vga_calls' = vga_calls + 1

VgaFrame ==
    /\ vga_calls < MaxVgaCalls
    /\ UNCHANGED <<kvars, ticks, sleep_issued, exited, destroyed, script_pos, undo,
                   created, ringbuf, ttyvars, kbdvars>>

VgaClear ==
    /\ VgaFrame
    /\ SetV(vga_clear(V))
    /\ lastOp' = Op("vga_clear", 0, NULL)

VgaSetRowCol ==
    /\ VgaFrame
    /\ \E row \in -1 .. VGA_HEIGHT, col \in -1 .. VGA_WIDTH :
         /\ SetV(vga_set_rowcol(V, row, col))
         /\ lastOp' = Op("vga_set_rowcol", 0, <<row, col>>)

VgaSetC ==
    /\ VgaFrame
    /\ \E c \in VgaChars :
         /\ SetV(vga_setc(V, c))
         /\ lastOp' = Op("vga_setc", 0, c)

VgaPutC ==
    /\ VgaFrame
    /\ \E c \in VgaChars :
         /\ SetV(vga_putc(V, c))
         /\ lastOp' = Op("vga_putc", 0, c)

VgaScroll ==
    /\ VgaFrame
    /\ SetV(vga_scroll(V))
    /\ lastOp' = Op("vga_scroll", 0, NULL)

NextVga == VgaClear \/ VgaSetRowCol \/ VgaSetC \/ VgaPutC \/ VgaScroll

SpecVga == Init /\ [][NextVga]_vars

(***************************************************************************)
(* The keyboard on its own: up to MaxKeys raw codes are decoded, presses   *)
(* and releases of the modifier keys, of letters and of a digit.           *)
(***************************************************************************)
MaxKeys == 4

KeyCodes == {ASCII_LEFT_SHIFT, ASCII_RIGHT_SHIFT, ASCII_CTRL, ASCII_ALT, ASCII_CAPS_LOCK,
             97, 122, 65, 49}

RawCodes == KeyCodes \cup {k + 128 : k \in KeyCodes}

Kbd == [shift_pressed |-> shift_pressed, caps_lock_on |-> caps_lock_on,
        ctrl_pressed |-> ctrl_pressed, alt_pressed |-> alt_pressed]

KeyboardDecode ==
    /\ Len(kbd_events) < MaxKeys
    /\ \E c \in RawCodes :
         LET d == keyboard_decode(Kbd, c)
         IN  /\ shift_pressed' = d.kb.shift_pressed
             /\ caps_lock_on' = d.kb.caps_lock_on
             /\ ctrl_pressed' = d.kb.ctrl_pressed
             /\ alt_pressed' = d.kb.alt_pressed
             /\ kbd_events' = Append(kbd_events, c)
             /\ lastOp' = Op("keyboard_decode", d.rc, c)
    /\ UNCHANGED <<kvars, ticks, sleep_issued, exited, destroyed, script_pos, undo,
                   created, ringbuf, ttyvars, vgavars>>

NextKbd == KeyboardDecode

SpecKbd == Init /\ [][NextKbd]_vars

(***************************************************************************)
(* Properties.                                                             *)
(***************************************************************************)
ActiveSlots == {i \in Slots : proc_table[i].state = "ACTIVE"}

RunEnded == lastOp.op \in {"scheduler_run", "PROC_EXIT"}

\* C1: at the end of every scheduler_run call (also the one PROC_EXIT makes)
\* exactly one table entry is ACTIVE and active_proc refers to it.
C1_RunLeavesOneActive ==
    RunEnded => (active_proc # NULL /\ ActiveSlots = {active_proc})

C3_NoEarlyWake ==
    RunEnded => \A sd \in sleep_issued : ActivePid = sd[1] => ticks >= sd[2]

\* scheduler_run has acted while a sleeper's deadline was still ahead.
C3_Witness ==
    /\ lastOp.op = "scheduler_run"
    /\ \E sd \in sleep_issued : ticks < sd[2] /\ ActivePid # sd[1]

\* The timer keeps ticking and scheduler_run keeps being invoked.
FairSpec == Spec /\ WF_vars(Tick) /\ WF_vars(Run)

\* P is asleep on a deadline the tick count can reach.
Asleep(p) ==
    \E i \in Slots : /\ proc_table[i].pid = p
                     /\ proc_table[i].state = "SLEEPING"
                     /\ <<p, proc_table[i].sleep_time>> \in sleep_issued
                     /\ proc_table[i].sleep_time <= MaxTicks

Selected(p) ==
    /\ ActivePid = p
    /\ proc_table[active_proc].state = "ACTIVE"
    /\ \A sd \in sleep_issued : sd[1] = p => ticks >= sd[2]

\* C4: a process that scheduler_sleep put to sleep and nobody destroyed is
\* eventually the active process, at a tick at or after its deadline.
C4_EventuallyWoken ==
    \A p \in 1 .. (MaxPid - 1) : Asleep(p) ~> (Selected(p) \/ p \in destroyed)

\* C5: with nobody asleep, a scheduler_run that finds the active process at
\* its quantum (or no process active) selects the head of the cycle of
\* non-idle processes: the run queue followed by the preempted process,
\* which rejoins at the tail.
RunCycle ==
    run_queue \o
    (IF active_proc # NULL /\ ActivePid # 0 /\ proc_table[active_proc].state = "ACTIVE"
     THEN <<ActivePid>> ELSE <<>>)

C5_RoundRobin ==
    [][(/\ lastOp'.op = "scheduler_run"
        /\ sleep_queue = <<>>
        /\ RunCycle # <<>>
        /\ \A i \in 1 .. Len(RunCycle) : RunCycle[i] # 0
        /\ (active_proc # NULL /\ proc_table[active_proc].state = "ACTIVE"
                => proc_table[active_proc].cpu_time >= SCHEDULER_TIMESLICE))
       => (ActivePid' = Head(RunCycle) /\ run_queue' = Tail(RunCycle))]_vars

\* C6: after kproc_init, create A, create B the run queue is <<1, 2>>, and
\* run, tick, run, tick, run select pid 1, then 2, then 1.
C6_Example ==
    /\ script_pos = 2 => run_queue = <<1, 2>>
    /\ script_pos = 3 => ActivePid = 1
    /\ script_pos = 5 => ActivePid = 2
    /\ script_pos = 7 => ActivePid = 1

\* C7: pid 0 is never an element of the run queue.
C7_IdleNotQueued == \A i \in 1 .. Len(run_queue) : run_queue[i] # 0

\* C8: a process that called PROC_EXIT has state NONE and is never the
\* active process afterwards.
C8_ExitedNeverSelected ==
    \A p \in exited :
        /\ ActivePid # p
        /\ \A i \in Slots : proc_table[i].pid = p => proc_table[i].state = "NONE"

\* A process has exited through PROC_EXIT.
C8_Witness ==
    /\ lastOp.op = "PROC_EXIT"
    /\ \E i \in Slots : proc_table[i].pid \in exited /\ proc_table[i].state = "NONE"

\* C9: kproc_create with an empty allocator returns -1 and changes nothing.
C9_ExhaustedCreate ==
    [][(lastOp'.op = "kproc_create" /\ queue_is_empty(proc_allocator))
       => (/\ lastOp'.rc = -1
           /\ UNCHANGED <<proc_table, next_pid, proc_allocator, run_queue, sleep_queue>>)]_vars

\* kproc_create was called with the allocator empty.
C9_Witness ==
    lastOp.op = "kproc_create" /\ lastOp.rc = -1 /\ queue_is_empty(proc_allocator)

\* C10: no free-list entry is the slot of a live process, and the number of
\* occupied slots is PROC_MAX minus the allocator's size.
C10_AllocatorAccounts ==
    /\ \A i \in 1 .. Len(proc_allocator) : proc_table[proc_allocator[i]].state = "NONE"
    /\ Cardinality(Live) = PROC_MAX - Len(proc_allocator)

\* C11: a successful kproc_create returns a pid greater than every pid
\* returned before, and no two live table entries ever share a pid.
C11_PidNeverReused ==
    /\ [](\A i, j \in Live : i # j => proc_table[i].pid # proc_table[j].pid)
    /\ [][(lastOp'.op = "kproc_create" /\ lastOp'.rc # -1)
          => \A p \in created : lastOp'.rc > p]_vars

\* kproc_create succeeded after kproc_destroy had freed a slot.
C11_Witness ==
    /\ lastOp.op = "kproc_create" /\ lastOp.rc > 0
    /\ destroyed # {}
    /\ Cardinality(created) >= 3

\* C12: a successful kproc_create fills the slot at the head of the free
\* list, which held no live process, and changes no PCB that was live.
C12_CreateFillsPoppedSlot ==
    [][(lastOp'.op = "kproc_create" /\ lastOp'.rc # -1)
       => LET e == Head(proc_allocator)
          IN  /\ proc_table[e].state = "NONE"
              /\ proc_table'[e].pid = lastOp'.rc
              /\ proc_table'[e].state # "NONE"
              /\ \A i \in Live : proc_table'[i] = proc_table[i]]_vars

\* C13: kproc_destroy of a null PCB, of a PCB whose state is NONE, or of the
\* idle process returns -1 and changes neither the table, the allocator, the
\* queues nor active_proc; the idle process is never destroyed.
C13_DestroyRejects ==
    /\ [][(/\ lastOp'.op = "kproc_destroy"
           /\ \/ lastOp'.arg = NULL
              \/ proc_table[lastOp'.arg].state = "NONE"
              \/ proc_table[lastOp'.arg].pid = 0)
          => (/\ lastOp'.rc = -1
              /\ UNCHANGED <<proc_table, proc_allocator, run_queue, sleep_queue,
                             active_proc>>)]_vars
    /\ [](0 \notin destroyed)

\* kproc_destroy was called on the live idle process and rejected.
C13_Witness ==
    /\ lastOp.op = "kproc_destroy" /\ lastOp.arg = 0 /\ lastOp.rc = -1
    /\ proc_table[0].pid = 0 /\ proc_table[0].state = "ACTIVE"

\* C14: scheduler_remove of a process its back-reference places in the run
\* queue leaves the run queue as it was with the process's pid deleted.
C14_RemoveKeepsOrder ==
    [][(/\ lastOp'.op = "scheduler_remove"
        /\ proc_table[lastOp'.arg].scheduler_queue = "run_queue")
       => run_queue' = SelectSeq(run_queue,
                                 LAMBDA x : x # proc_table[lastOp'.arg].pid)]_vars

\* C15: scheduler_add(P) followed immediately by scheduler_remove(P) leaves
\* the run queue with the contents and order it had before the add.
C15_AddRemoveRestores ==
    undo.removed => run_queue = undo.queue

\* P was added behind two queued processes and then removed.
C15_Witness ==
    /\ undo.removed /\ Len(undo.queue) >= 2
    /\ lastOp.op = "scheduler_remove" /\ lastOp.arg = undo.proc

\* C16: after scheduler_remove(P), and after a successful kproc_destroy(P),
\* P's pid is in neither queue, P's back-reference is cleared and
\* active_proc does not refer to P.
C16_RemovedEverywhere ==
    [][(\/ lastOp'.op = "scheduler_remove"
        \/ lastOp'.op = "kproc_destroy" /\ lastOp'.rc = 0)
       => (/\ proc_table[lastOp'.arg].pid \notin Range(run_queue') \cup Range(sleep_queue')
           /\ proc_table'[lastOp'.arg].scheduler_queue = "NULL"
           /\ active_proc' # lastOp'.arg)]_vars

\* C17: the back-reference of every live process names the run queue exactly
\* when its pid is in the run queue, the sleep queue exactly when its pid is
\* in the sleep queue, and nothing exactly when its pid is in neither.
C17_BackRefAgrees ==
    \A i \in Live :
        LET p == proc_table[i]
        IN  /\ (p.scheduler_queue = "run_queue") <=> (p.pid \in Range(run_queue))
            /\ (p.scheduler_queue = "sleep_queue") <=> (p.pid \in Range(sleep_queue))
            /\ (p.scheduler_queue = "NULL")
                  <=> (p.pid \notin Range(run_queue) \cup Range(sleep_queue))

\* C18: no pid occurs twice in the run queue and the sleep queue taken together.
C18_NoDuplicatePid ==
    LET both == run_queue \o sleep_queue
    IN  \A i, j \in 1 .. Len(both) : i # j => both[i] # both[j]

\* Both queues hold pids, and a process that has slept and been woken is
\* asleep again.
C18_Witness ==
    /\ run_queue # <<>> /\ sleep_queue # <<>>
    /\ \E d, e \in sleep_issued : d[1] = e[1] /\ d[2] < e[2] /\ e[1] \in Range(sleep_queue)

\* C19: every pid in the run queue or the sleep queue, and pid 0, resolves
\* through pid_to_proc to a live PCB, and scheduler_run never halts the
\* kernel on an unresolved pid.
C19_QueuedPidsResolve ==
    /\ \A pid \in Range(run_queue) \cup Range(sleep_queue) \cup {0} :
          /\ pid_to_proc(proc_table, pid) # NULL
          /\ proc_table[pid_to_proc(proc_table, pid)].state # "NONE"
    /\ panic \notin {"Invalid process in sleep queue", "Unable to schedule a process!"}

\* C20: for every dispatched system call, PROC_EXIT included, the handler's
\* return value ends in eax of the saved context of the process that was
\* active when the trap fired, and no other saved context changes.
C20_ReturnValueToCaller ==
    [][(lastOp'.op \in {"syscall", "PROC_EXIT"})
       => (/\ trapframe_eax'[lastOp'.arg] = lastOp'.rc
           /\ \A i \in Slots \ {lastOp'.arg} : trapframe_eax'[i] = trapframe_eax[i])]_vars

\* C21: a trap whose identifier is GET_TIME, GET_NAME, PROC_EXIT,
\* PROC_GET_PID, PROC_GET_NAME, SLEEP or I/O READ, WRITE or FLUSH is
\* dispatched to its handler; only another identifier is fatal.
C21_TableCoversServices ==
    (panic = "Invalid system call") => trapframe_eax[lastOp.arg] \notin ServiceTable

\* The I/O call with index io has no valid buffer to act on.
IoInvalid(io) ==
    \/ active_proc = NULL
    \/ io < 0
    \/ io >= PROC_IO_MAX
    \/ proc_table[active_proc].io[io] = NULL

\* C22: ksyscall_io_read, ksyscall_io_write and ksyscall_io_flush with an
\* index out of range, a null handle or no active process return -1 and
\* leave every ring buffer unchanged.
C22_IoRejects ==
    [][(/\ lastOp'.op \in {"ksyscall_io_read", "ksyscall_io_write", "ksyscall_io_flush"}
        /\ IoInvalid(lastOp'.arg))
       => (lastOp'.rc = -1 /\ ringbuf' = ringbuf)]_vars

\* A flush with a valid index whose handle is null was rejected while a
\* ring buffer held data.
C22_Witness ==
    /\ lastOp.op = "ksyscall_io_flush" /\ lastOp.rc = -1
    /\ lastOp.arg \in 0 .. (PROC_IO_MAX - 1)
    /\ active_proc # NULL
    /\ proc_table[active_proc].io[lastOp.arg] = NULL
    /\ \E h \in BufIds : ringbuf[h] # <<>>

\* C23: bit_count(value) is the number of bits of value that are 1.
C23_BitCount ==
    (lastOp.op = "bit_count") => (lastOp.rc = PopCount(lastOp.arg))

\* scheduler_run, called in this state, finds no process to keep running
\* and sweeps the sleep queue.
SweepStarts ==
    /\ run_preempt(run_drop_inactive(K)).active_proc = NULL
    /\ sleep_queue # <<>>

\* C24: a scheduler_run that sweeps the sleep queue evaluates every pid that
\* was in it once: after the call each process whose deadline has passed is
\* in the run queue or is the active process, and every other one is still
\* in the sleep queue.
C24_SweepEvaluatesAll ==
    [][(lastOp'.op = "scheduler_run" /\ SweepStarts /\ panic' = NoPanic)
       => \A pid \in Range(sleep_queue) :
             LET sleep_proc == pid_to_proc(proc_table, pid)
             IN  IF wake_due(ticks, proc_table[sleep_proc].sleep_time)
                 THEN \/ pid \in Range(run_queue')
                      \/ active_proc' # NULL /\ proc_table'[active_proc'].pid = pid
                 ELSE pid \in Range(sleep_queue')]_vars

\* scheduler_run is called while a process is running.
Running == active_proc # NULL /\ proc_table[active_proc].state = "ACTIVE"

\* C25: scheduler_run with the active process below its quantum changes
\* nothing; with a non-idle active process at its quantum it resets the
\* counter and queues the process behind every pid already waiting: the
\* first of the waiting pids followed by the process is selected, the
\* others keep their order at the front of the run queue.
C25_PreemptAtQuantum ==
    [][(lastOp'.op = "scheduler_run" /\ Running)
       => IF proc_table[active_proc].cpu_time < SCHEDULER_TIMESLICE
          THEN UNCHANGED <<proc_table, run_queue, sleep_queue, active_proc, panic>>
          ELSE proc_table[active_proc].pid # 0
               => LET q == Append(run_queue, proc_table[active_proc].pid)
                  IN  /\ proc_table'[active_proc].cpu_time = 0
                      /\ proc_table'[active_proc].state =
                            IF run_queue = <<>> THEN "ACTIVE" ELSE "IDLE"
                      /\ active_proc' # NULL
                      /\ proc_table'[active_proc'].pid = Head(q)
                      /\ Len(run_queue') >= Len(q) - 1
                      /\ SubSeq(run_queue', 1, Len(q) - 1) = Tail(q)]_vars

\* A process that ran for a tick has been preempted and waits at the tail
\* of the run queue behind another one.
C25_Witness ==
    /\ lastOp.op = "scheduler_run" /\ active_proc # NULL
    /\ Len(run_queue) >= 2
    /\ \E i \in Live : /\ proc_table[i].pid = run_queue[Len(run_queue)]
                        /\ proc_table[i].state = "IDLE"
                        /\ proc_table[i].run_time >= 1
                        /\ proc_table[i].cpu_time = 0

\* C26: scheduler_timer adds one to run_time and cpu_time of the active
\* process, if there is one, and changes nothing else.
C26_TimerCountsActive ==
    [][(lastOp'.op = "scheduler_timer")
       => (/\ proc_table' = IF active_proc = NULL THEN proc_table
                            ELSE [proc_table EXCEPT ![active_proc].run_time = @ + 1,
                                                    ![active_proc].cpu_time = @ + 1]
           /\ UNCHANGED <<active_proc, run_queue, sleep_queue, proc_allocator,
                          next_pid, panic, trapframe_eax>>)]_vars

\* A tick was counted for the active process while other processes waited
\* in the run queue and in the sleep queue.
C26_Witness ==
    /\ lastOp.op = "scheduler_timer"
    /\ active_proc # NULL /\ proc_table[active_proc].cpu_time = 1
    /\ run_queue # <<>> /\ sleep_queue # <<>>

\* The transitions of the per-process state machine.
Lifecycle ==
    {<<"NONE", "IDLE">>, <<"IDLE", "ACTIVE">>, <<"ACTIVE", "IDLE">>,
     <<"ACTIVE", "SLEEPING">>, <<"ACTIVE", "NONE">>, <<"SLEEPING", "IDLE">>}

\* scheduler_run writes process states in three places: the preemption, the
\* wake-up sweep and the final dispatch.  The process table before the call
\* and after the first two, for a call in kernel state s.
RunStages(s) ==
    LET a == run_preempt(run_drop_inactive(s))
        b == IF a.panic # NoPanic \/ a.active_proc # NULL \/ queue_is_empty(a.sleep_queue)
             THEN a
             ELSE sleep_sweep(a, 0, ticks)
    IN  <<s.proc_table, a.proc_table, b.proc_table>>

\* The process table at each point of the operation that made this step:
\* between two consecutive points each entry's state is written at most once.
StateWrites ==
    IF lastOp'.op = "scheduler_run"
    THEN Append(RunStages(K), proc_table')
    ELSE IF lastOp'.op = "PROC_EXIT"
    THEN <<proc_table>>
         \o Append(RunStages([K EXCEPT !.proc_table[active_proc].state = "NONE"]),
                   proc_table')
    ELSE <<proc_table, proc_table'>>

C28_PidToProc ==
    (lastOp.op = "pid_to_proc")
       => LET hits == {i \in Slots : proc_table[i].pid = lastOp.arg
                                      /\ proc_table[i].state # "NONE"}
          IN  /\ (lastOp.rc # NULL) <=> (hits # {})
              /\ (lastOp.rc # NULL) => (lastOp.rc \in hits)

\* Pid 0 was looked up and found behind a zeroed entry that carries pid 0.
C28_Witness ==
    /\ lastOp.op = "pid_to_proc" /\ lastOp.arg = 0 /\ lastOp.rc # NULL
    /\ \E i \in Slots : /\ i < lastOp.rc
                         /\ proc_table[i].pid = 0 /\ proc_table[i].state = "NONE"

\* The process in slot i has exited through PROC_EXIT.
ExitedSlot(i) ==
    /\ proc_table[i].state = "NONE"
    /\ proc_table[i].pid # 0
    /\ proc_table[i].pid \in exited

\* C29: PROC_EXIT leaves the allocator unchanged, kproc_destroy of an exited
\* PCB is rejected, and no later step changes the slot of an exited process
\* or puts its index into the free list.
C29_ExitedSlotNeverFreed ==
    [][/\ (lastOp'.op = "PROC_EXIT") => (proc_allocator' = proc_allocator)
       /\ \A i \in Slots :
             ExitedSlot(i)
                => /\ ExitedSlot(i)'
                   /\ (i \in Range(proc_allocator')) => (i \in Range(proc_allocator))
                   /\ (lastOp'.op = "kproc_destroy" /\ lastOp'.arg = i)
                         => (lastOp'.rc = -1 /\ proc_allocator' = proc_allocator)]_vars

\* kproc_destroy was called on the PCB of an exited process, after another
\* process had been destroyed and its slot freed.
C29_Witness ==
    /\ lastOp.op = "kproc_destroy" /\ lastOp.arg # NULL /\ lastOp.rc = -1
    /\ ExitedSlot(lastOp.arg)
    /\ proc_allocator # <<>>
    /\ lastOp.arg \notin Range(proc_allocator)

\* C30: the pid of the process active_proc refers to is in neither the run
\* queue nor the sleep queue.
C30_ActiveNotQueued ==
    (active_proc # NULL)
       => /\ proc_table[active_proc].pid \notin Range(run_queue)
          /\ proc_table[active_proc].pid \notin Range(sleep_queue)

\* C31: every index tty_update stores to lies inside the buffer, and after
\* each call the position lies on the screen.
C31_TtyInBounds ==
    /\ tty_written \subseteq TtyCells
    /\ active_tty.pos_x \in 0 .. (TTY_WIDTH - 1)
    /\ active_tty.pos_y \in 0 .. (TTY_HEIGHT - 1)

\* The part of C31 about the position alone.
TtyPosOnScreen ==
    /\ active_tty.pos_x \in 0 .. (TTY_WIDTH - 1)
    /\ active_tty.pos_y \in 0 .. (TTY_HEIGHT - 1)

\* The value of [lo, hi] nearest to v.
Nearest(v, lo, hi) == IF v < lo THEN lo ELSE IF v > hi THEN hi ELSE v

\* C32: after any sequence of vga_clear, vga_set_rowcol, vga_setc, vga_putc
\* and vga_scroll the current position is on the screen, and vga_set_rowcol
\* sets the position to the point of the screen nearest to its arguments.
C32_VgaPositionOnScreen ==
    /\ current_row \in 0 .. (VGA_HEIGHT - 1)
    /\ current_col \in 0 .. (VGA_WIDTH - 1)
    /\ (lastOp.op = "vga_set_rowcol")
          => /\ current_row = Nearest(lastOp.arg[1], 0, VGA_HEIGHT - 1)
             /\ current_col = Nearest(lastOp.arg[2], 0, VGA_WIDTH - 1)

\* vga_set_rowcol was called, as the last of MaxVgaCalls calls, with a row
\* below the screen and a column left of it.
C32_Witness ==
    /\ lastOp.op = "vga_set_rowcol"
    /\ lastOp.arg = <<VGA_HEIGHT, -1>>
    /\ current_row = VGA_HEIGHT - 1 /\ current_col = 0
    /\ vga_calls = MaxVgaCalls

\* What the events say: shift is held when the latest shift event is a
\* press, caps lock is on after an odd number of CAPS LOCK presses.
IsPress(c) == c < 128

KeyOf(c) == c % 128

ModifierKeys == {ASCII_LEFT_SHIFT, ASCII_RIGHT_SHIFT, ASCII_CTRL, ASCII_ALT, ASCII_CAPS_LOCK}

ShiftHeld(events) ==
    LET shifts == {i \in 1 .. Len(events) :
                     KeyOf(events[i]) \in {ASCII_LEFT_SHIFT, ASCII_RIGHT_SHIFT}}
    IN  /\ shifts # {}
        /\ IsPress(events[CHOOSE i \in shifts : \A j \in shifts : j <= i])

CapsOn(events) ==
    Cardinality({i \in 1 .. Len(events) : events[i] = ASCII_CAPS_LOCK}) % 2 = 1

\* The events before the one just decoded.
EarlierKeys == SubSeq(kbd_events, 1, Len(kbd_events) - 1)

\* The part of C33 about modifier keys and releases: they return KEY_NULL.
KbdSilentKeys ==
    (lastOp.op = "keyboard_decode"
       /\ (KeyOf(lastOp.arg) \in ModifierKeys \/ ~IsPress(lastOp.arg)))
       => (lastOp.rc = KEY_NULL)

\* The part of C33 about a letter pressed with exactly one of shift and caps
\* lock: the uppercase letter is returned.
KbdUpperCase ==
    (lastOp.op = "keyboard_decode" /\ IsPress(lastOp.arg)
       /\ lastOp.arg \in 97 .. 122
       /\ (ShiftHeld(EarlierKeys) # CapsOn(EarlierKeys)))
       => (lastOp.rc = lastOp.arg - 32)

\* C33: keyboard_decode returns KEY_NULL for every SHIFT, CTRL, ALT and CAPS
\* LOCK event and for every release; for the press of a lowercase-letter key
\* it returns the uppercase letter when exactly one of shift held and caps
\* lock on is true, and the lowercase letter otherwise.
C33_KeyboardDecode ==
    /\ KbdSilentKeys
    /\ KbdUpperCase
    /\ (lastOp.op = "keyboard_decode" /\ IsPress(lastOp.arg)
          /\ lastOp.arg \in 97 .. 122
          /\ (ShiftHeld(EarlierKeys) = CapsOn(EarlierKeys)))
          => (lastOp.rc = lastOp.arg)

====
